---- MODULE Spec2Model ----
(***************************************************************************)
(* Model of the GCP target of the Wing SDK:                                *)
(*   - preflight: tfgcp.Function (constructor, addPermission) and the      *)
(*     Bigtable-backed Table (constructor, bind);                          *)
(*   - inflight: the Bigtable TableClient (insert, upsert, update, delete, *)
(*     get, tryGet, list), one step per backend round trip.                *)
(***************************************************************************)
EXTENDS Integers, Sequences, FiniteSets, TLC

(***************************************************************************)
(* Bounds                                                                  *)
(***************************************************************************)
\* number of Table.bind calls made during one synthesis
MaxBinds == 3

\* calls two concurrent callers make in all
MaxCalls == 3

(***************************************************************************)
(* State                                                                   *)
(***************************************************************************)
\* preflight
VARIABLES
    tree,         \* the construct tree: the set of nodes added so far
    funcField,    \* the functions whose this.function field is set
    permissions,  \* per function: this.permissions (defined, map)
    tableState,   \* per table: "none", "failed" (constructor threw), "ok"
    bindings,     \* per (host, table): operations recorded by Resource.bind
    declared,     \* history: per (function, table) the union of the
                  \* operation sets passed to bind so far
    nextRef,      \* identity of the next object literal allocated
    nbinds,       \* number of bind calls made
    last          \* the last preflight call and its outcome

synthVars == <<tree, funcField, permissions, tableState, bindings, declared,
               nextRef, nbinds, last>>

\* role inference on its own
VARIABLES
    inferOps,     \* the ops argument of a bind call
    inferRole     \* the role bind passes to addPermission for it, "-" before

inferVars == <<inferOps, inferRole>>

\* inflight
VARIABLES
    rows,     \* the Bigtable table: per key the cells of the row (none: no row)
    active,   \* the callers that use the client
    pc,       \* per caller: where its call stands
    cur,      \* per caller: the call (method, key, row), its locals and result
    deleted,  \* history: keys deleted with no insert or upsert started since
    prev,     \* history: per caller, the upsert that a get directly follows
    universe, \* the keys and rows the callers pass (fixed by the scenario)
    left,     \* calls the callers still make, where the scenario bounds them
    overwrote,\* history: callers whose current insert wrote onto a row that
              \* appeared after its existence probe
    stale,    \* history: callers in the save loop of an update whose row was
              \* deleted after their existence check
    tableExists, \* whether the instance holds the table the client names
    client    \* what the constructor did, and where validateTable() stands

clientVars ==
    <<rows, active, pc, cur, deleted, prev, universe, left, overwrote, stale,
      tableExists, client>>

vars == <<synthVars, inferVars, clientVars>>

(***************************************************************************)
(* Preflight: the construct tree, functions and tables                     *)
(***************************************************************************)
Functions == {"F1"}
\* an inflight host of another kind (not an instance of tfgcp.Function)
OtherHosts == {"Q1"}
Hosts == Functions \cup OtherHosts
Tables == {"T1", "T2"}

\* enum BigtablePermissions
READ == "roles/bigtable.viewer"
READWRITE == "roles/bigtable.user"

\* ex.TableInflightMethods: the operation vocabulary of a table
Vocabulary == {"get", "tryGet", "list", "insert", "update", "upsert", "delete"}
\* the operation sets the bind calls of the synthesis model draw from:
\* reads, writes, mixtures and sets with an unknown identifier
BindOpSets ==
    { {"get"}, {"update"}, {"get", "update"}, {"insert"}, {"list", "tryGet"},
      {"delete", "get"}, {"upsert"}, {"purge"}, {"get", "purge"} }

\* JavaScript undefined
Undefined == "undefined"

\* node.addr of a table: a string, here ten characters; the two tables differ
\* in their leading characters only and share the last eight
NodeAddr(t) ==
    IF t = "T1" THEN <<"c", "1", "a", "b", "c", "d", "e", "f", "0", "1">>
                ELSE <<"c", "2", "a", "b", "c", "d", "e", "f", "0", "1">>

\* String.prototype.substring(start): a negative start is clamped to 0 and a
\* start beyond the end to the length
Substring(s, start) ==
    LET from == IF start < 0 THEN 0 ELSE IF start > Len(s) THEN Len(s) ELSE start
    IN  SubSeq(s, from + 1, Len(s))

\* const uniqueId = resource.node.addr.substring(-8)
UniqueId(t) == Substring(NodeAddr(t), 0 - 8)

\* a node of the construct tree / an object of the template
Obj(scope, id, type, role, member) ==
    [scope |-> scope, id |-> id, type |-> type, role |-> role, member |-> member]

IAM_POLICY == "google_cloudfunctions_function_iam_policy"


\* Node.addChild of the construct tree: an id is unique within its scope
HasChild(tr, scope, id) == \E o \in tr : o.scope = scope /\ o.id = id

NoCall == [call |-> "none", host |-> "-", table |-> "-", ops |-> {},
           initialRows |-> FALSE, role |-> "-", result |-> "-"]

SynthInit ==
    /\ tree = {}
    /\ funcField = {}
    /\ permissions = [f \in Functions |-> [defined |-> FALSE, map |-> [k \in {} |-> {}]]]
    /\ tableState = [t \in Tables |-> "none"]
    /\ bindings = [h \in Hosts |-> [t \in Tables |-> {}]]
    /\ declared = [f \in Functions |-> [t \in Tables |-> {}]]
    /\ nextRef = 1
    /\ nbinds = 0
    /\ last = NoCall

\* the objects created by the Function constructor before the permissions loop
FunctionObjects(f) ==
    { Obj("root", <<f>>, "construct", "-", "-"),
      Obj(f, <<"Asset">>, "asset", "-", "-"),
      Obj(f, <<"FunctionCodeBucket">>, "google_storage_bucket", "-", "-"),
      Obj(f, <<"FunctionCodeBucketObject">>, "google_storage_bucket_object", "-", "-"),
      Obj(f, <<"functionName", f>>, "google_cloudfunctions_function", "-", "-"),
      Obj(f, <<"FunctionIamPolicy">>, IAM_POLICY,
          "roles/cloudfunctions.viewer", "allUsers") }

\* the "Apply permissions from bound resources" loop of the constructor: one
\* policy per assignment, all assignments of a key under the same id, so only
\* the first assignment of a key (the one added first) gets its policy
PermissionLoopObjects(f) ==
    IF permissions[f].defined
    THEN UNION { { Obj(f, <<"FunctionIamPolicy-">> \o k, IAM_POLICY,
                       a.roleDefinitionName, a.scope) :
                   a \in { x \in permissions[f].map[k] :
                             \A y \in permissions[f].map[k] : x.ref <= y.ref } } :
                 k \in DOMAIN permissions[f].map }
    ELSE {}

PermissionLoopThrows(f) ==
    /\ permissions[f].defined
    /\ \E k \in DOMAIN permissions[f].map : Cardinality(permissions[f].map[k]) > 1

\* new Function(scope, id, inflight, props)
NewFunction(f) ==
    /\ ~HasChild(tree, "root", <<f>>)
    /\ tree' = tree \cup FunctionObjects(f) \cup PermissionLoopObjects(f)
    /\ funcField' = funcField \cup {f}
    /\ last' = [NoCall EXCEPT !.call = "newFunction", !.host = f,
                  !.result = IF PermissionLoopThrows(f) THEN "DuplicateConstruct"
                             ELSE "ok"]
    /\ UNCHANGED <<permissions, tableState, bindings, declared, nextRef, nbinds>>
    /\ UNCHANGED <<inferVars, clientVars>>

\* the objects the Table constructor creates after the initialRows check
TableObjects(t) ==
    { Obj(t, <<"Instance">>, "google_bigtable_instance", "-", "-"),
      Obj(t, <<"Default">>, "google_bigtable_table", "-", "-") }

\* (mutant) the initialRows check made after the Bigtable instance is created
TableConstructorLateCheck(t, initialRows) ==
    LET afterSuper == tree \cup {Obj("root", <<t>>, "construct", "-", "-")}
        instance == Obj(t, <<"Instance">>, "google_bigtable_instance", "-", "-")
    IN  IF initialRows
        THEN [ok |-> FALSE, tree |-> afterSuper \cup {instance}]
        ELSE [ok |-> TRUE, tree |-> afterSuper \cup TableObjects(t)]

\* Table constructor: super() adds the table's own node, then initialRows is
\* rejected, then the instance and the table are created
TableConstructor(t, initialRows) ==
    LET afterSuper == tree \cup {Obj("root", <<t>>, "construct", "-", "-")}
    IN  IF initialRows
        THEN [ok |-> FALSE, tree |-> afterSuper]
        ELSE [ok |-> TRUE, tree |-> afterSuper \cup TableObjects(t)]

\* new Table(scope, id, props)
NewTable(t, initialRows) ==
    /\ ~HasChild(tree, "root", <<t>>)
    /\ LET r == TableConstructor(t, initialRows)
       IN  /\ tree' = r.tree
           /\ tableState' = [tableState EXCEPT ![t] = IF r.ok THEN "ok" ELSE "failed"]
           /\ last' = [NoCall EXCEPT !.call = "newTable", !.table = t,
                         !.initialRows = initialRows,
                         !.result = IF r.ok THEN "ok" ELSE "UnsupportedFeature"]
    /\ UNCHANGED <<funcField, permissions, bindings, declared, nextRef, nbinds>>
    /\ UNCHANGED <<inferVars, clientVars>>

\* (mutant) upsert forgotten among the writing operations
PermissionNameNoUpsert(ops) ==
    IF "delete" \in ops \/ "update" \in ops THEN READWRITE ELSE READ

\* Table.bind, lines 162-169: the role inferred from the operations of one call
PermissionName(ops) ==
    IF "delete" \in ops \/ "update" \in ops \/ "upsert" \in ops
    THEN READWRITE
    ELSE READ

\* the object literal { roleDefinitionName: permissionName } of Table.bind: a
\* new object on every call, with no scope property
ScopedRoleAssignment(ref, role) ==
    [ref |-> ref, roleDefinitionName |-> role, scope |-> Undefined]

\* scopedRoleAssignments.add(a); this.permissions.set(uniqueId, ...)
MapAdd(map, k, a) ==
    [x \in DOMAIN map \cup {k} |->
        IF x = k THEN (IF k \in DOMAIN map THEN map[k] ELSE {}) \cup {a}
                 ELSE map[x]]

\* (mutant) the grant is stored in the map before the policy is created
AddPermissionGrantFirst(f, t, a) ==
    LET map == permissions[f].map
        uniqueId == UniqueId(t)
        policyId == <<"FunctionIamPolicy-">> \o uniqueId
        policy == Obj(f, policyId, IAM_POLICY, a.roleDefinitionName, a.scope)
        stored == [defined |-> TRUE, map |-> MapAdd(map, uniqueId, a)]
    IN  IF uniqueId \in DOMAIN map /\ a \in map[uniqueId]
        THEN [threw |-> FALSE, tree |-> tree,
              perms |-> [defined |-> TRUE, map |-> map]]
        ELSE IF f \in funcField /\ HasChild(tree, f, policyId)
        THEN [threw |-> TRUE, tree |-> tree, perms |-> stored]
        ELSE [threw |-> FALSE,
              tree |-> IF f \in funcField THEN tree \cup {policy} ELSE tree,
              perms |-> stored]

\* Function.addPermission(resource, scopedRoleAssignment).  Set.has compares
\* objects by identity.  A second construct with an id already used in the
\* same scope is refused by the construct tree with an error.
AddPermission(f, t, a) ==
    LET map == permissions[f].map
        uniqueId == UniqueId(t)
        policyId == <<"FunctionIamPolicy-">> \o uniqueId
        policy == Obj(f, policyId, IAM_POLICY, a.roleDefinitionName, a.scope)
        same == [threw |-> FALSE, tree |-> tree,
                 perms |-> [defined |-> TRUE, map |-> map]]
    IN  IF uniqueId \in DOMAIN map /\ a \in map[uniqueId]
        THEN same
        ELSE IF f \in funcField /\ HasChild(tree, f, policyId)
        THEN [same EXCEPT !.threw = TRUE]
        ELSE [threw |-> FALSE,
              tree |-> IF f \in funcField THEN tree \cup {policy} ELSE tree,
              perms |-> [defined |-> TRUE, map |-> MapAdd(map, uniqueId, a)]]

\* Resource.bind (super.bind): records the operations of the binding; rejects
\* identifiers outside the vocabulary
BaseBind(h, t, ops) ==
    IF ~(ops \subseteq Vocabulary)
    THEN [ok |-> FALSE, bindings |-> bindings]
    ELSE [ok |-> TRUE, bindings |-> [bindings EXCEPT ![h][t] = @ \cup ops]]

\* (mutant) the binding is recorded before the host is checked
TableBindLateCheck(h, t, ops) ==
    IF h \notin Functions
    THEN [result |-> "HostError", role |-> "-", tree |-> tree,
          permissions |-> permissions, bindings |-> BaseBind(h, t, ops).bindings]
    ELSE LET role == PermissionName(ops)
             p == AddPermission(h, t, ScopedRoleAssignment(nextRef, role))
             b == BaseBind(h, t, ops)
             perms == [permissions EXCEPT ![h] = p.perms]
         IN  IF p.threw
             THEN [result |-> "DuplicateConstruct", role |-> role, tree |-> p.tree,
                   permissions |-> perms, bindings |-> bindings]
             ELSE [result |-> IF b.ok THEN "ok" ELSE "UnknownOperation",
                   role |-> role, tree |-> p.tree,
                   permissions |-> perms, bindings |-> b.bindings]

\* Table.bind(host, ops)
TableBind(h, t, ops) ==
    IF h \notin Functions
    THEN [result |-> "HostError", role |-> "-", tree |-> tree,
          permissions |-> permissions, bindings |-> bindings]
    ELSE LET role == PermissionName(ops)
             p == AddPermission(h, t, ScopedRoleAssignment(nextRef, role))
             b == BaseBind(h, t, ops)
             perms == [permissions EXCEPT ![h] = p.perms]
         IN  IF p.threw
             THEN [result |-> "DuplicateConstruct", role |-> role, tree |-> p.tree,
                   permissions |-> perms, bindings |-> bindings]
             ELSE [result |-> IF b.ok THEN "ok" ELSE "UnknownOperation",
                   role |-> role, tree |-> p.tree,
                   permissions |-> perms, bindings |-> b.bindings]

\* one call table.bind(host, ops) made while the app is built
Bind(h, t, ops) ==
    /\ nbinds < MaxBinds
    /\ tableState[t] = "ok"
    /\ h \in OtherHosts \/ h \in funcField
    /\ LET r == TableBind(h, t, ops)
       IN  /\ tree' = r.tree
           /\ permissions' = r.permissions
           /\ bindings' = r.bindings
           /\ last' = [NoCall EXCEPT !.call = "bind", !.host = h, !.table = t,
                         !.ops = ops, !.role = r.role, !.result = r.result]
    /\ nextRef' = IF h \in Functions THEN nextRef + 1 ELSE nextRef
    /\ declared' = IF h \in Functions
                   THEN [declared EXCEPT ![h][t] = @ \cup ops]
                   ELSE declared
    /\ nbinds' = nbinds + 1
    /\ UNCHANGED <<funcField, tableState>>
    /\ UNCHANGED <<inferVars, clientVars>>

SynthNext ==
    \/ \E f \in Functions : NewFunction(f)
    \/ \E t \in Tables, initialRows \in BOOLEAN : NewTable(t, initialRows)
    \/ \E h \in Hosts, t \in Tables, ops \in BindOpSets : Bind(h, t, ops)

(***************************************************************************)
(* Role inference on its own: every operation set over the vocabulary      *)
(***************************************************************************)

InferInit ==
    /\ inferOps \in SUBSET Vocabulary
    /\ inferRole = "-"

InferIdle ==
    /\ inferOps = {}
    /\ inferRole = "-"

\* lines 162-170 of Table.bind applied to inferOps
Infer ==
    /\ inferRole = "-"
    /\ inferRole' = PermissionName(inferOps)
    /\ UNCHANGED inferOps
    /\ UNCHANGED <<synthVars, clientVars>>

(***************************************************************************)
(* Inflight: the Bigtable TableClient                                      *)
(***************************************************************************)
Callers == {"c1", "c2"}
Keys == {"k1", "k2"}

\* column names are strings, here sequences of characters
NAME == <<"n">>
AGE == <<"c", ":", "a">>
ZIP == <<"z">>
\* the "key" property of the entry handed to table.insert
KEY == <<"k", "e", "y">>

\* JSON.parse(this.columns): the declared columns
Columns == {NAME, AGE}

EmptyRow == [f \in {} |-> "-"]

\* the rows the callers pass: declared fields, one with an undeclared field
InputRows ==
    { [f \in {NAME} |-> "a"],
      [f \in {NAME} |-> "b"],
      [f \in {AGE} |-> "a"],
      [f \in {NAME, AGE} |-> "b"],
      [f \in {NAME, ZIP} |-> "a"] }

Methods == {"insert", "upsert", "update", "delete", "get", "tryGet", "list"}


\* the constructor returned and validateTable() has resolved
Validated == [ctor |-> "returned", validation |-> "ok"]

NoPrev == [is |-> FALSE, row |-> EmptyRow, pre |-> [k \in Keys |-> EmptyRow]]

NoCur == [op |-> "-", key |-> "-", row |-> EmptyRow, todo |-> {},
          status |-> "-", ret |-> "-", data |-> EmptyRow,
          list |-> [k \in {} |-> EmptyRow],
          pre |-> [k \in Keys |-> EmptyRow]]

ClientIdle ==
    /\ rows = [k \in Keys |-> EmptyRow]
    /\ active = {}
    /\ pc = [c \in Callers |-> "idle"]
    /\ cur = [c \in Callers |-> NoCur]
    /\ deleted = {}
    /\ prev = [c \in Callers |-> NoPrev]
    /\ universe = [keys |-> {}, rows |-> {}, bounded |-> TRUE]
    /\ left = 0
    /\ overwrote = {}
    /\ stale = {}
    /\ tableExists = TRUE
    /\ client = Validated

\* a client of an existing, empty table used by one caller
ClientInit ==
    /\ rows = [k \in Keys |-> EmptyRow]
    /\ active = {"c1"}
    /\ pc = [c \in Callers |-> "idle"]
    /\ cur = [c \in Callers |-> NoCur]
    /\ deleted = {}
    /\ prev = [c \in Callers |-> NoPrev]
    /\ universe = [keys |-> Keys, rows |-> InputRows, bounded |-> FALSE]
    /\ left = 0
    /\ overwrote = {}
    /\ stale = {}
    /\ tableExists = TRUE
    /\ client = Validated

\* the rows two concurrent callers pass: two values of one field and a row
\* of two fields
ConcRows ==
    { [f \in {NAME} |-> "a"],
      [f \in {NAME} |-> "b"],
      [f \in {NAME, AGE} |-> "b"] }

\* the same client used by two callers at once, here on one key
ConcInit ==
    /\ rows = [k \in Keys |-> EmptyRow]
    /\ active = {"c1", "c2"}
    /\ pc = [c \in Callers |-> "idle"]
    /\ cur = [c \in Callers |-> NoCur]
    /\ deleted = {}
    /\ prev = [c \in Callers |-> NoPrev]
    /\ universe = [keys |-> {"k1"}, rows |-> ConcRows, bounded |-> TRUE]
    /\ left = MaxCalls
    /\ overwrote = {}
    /\ stale = {}
    /\ tableExists = TRUE
    /\ client = Validated

\* validateRow(row, columns): a row with an undeclared field is rejected
ValidRow(r) == DOMAIN r \subseteq Columns

\* position of the first ":" of a column name, Len + 1 if there is none
FirstColon(col) ==
    IF \E i \in 1..Len(col) : col[i] = ":"
    THEN CHOOSE i \in 1..Len(col) :
            col[i] = ":" /\ \A j \in 1..(i - 1) : col[j] # ":"
    ELSE Len(col) + 1

\* const [family] = column.split(':')
Family(col) == SubSeq(col, 1, FirstColon(col) - 1)

\* { key: key, ...row }: the properties of row come last and win
InsertRow(key, r) ==
    [f \in {KEY} \cup DOMAIN r |-> IF f \in DOMAIN r THEN r[f] ELSE key]

\* cells of b written over the cells of a
Merge(a, b) ==
    [f \in DOMAIN a \cup DOMAIN b |-> IF f \in DOMAIN b THEN b[f] ELSE a[f]]

\* row.exists(): a Bigtable row exists when it has a cell
RowExists(tbl, k) == DOMAIN tbl[k] # {}

\* table.insert(entry): sets the cells of the entry in the row entry.key
TableInsert(tbl, entry) ==
    LET cells == [f \in DOMAIN entry \ {KEY} |-> entry[f]]
    IN  [tbl EXCEPT ![entry[KEY]] = Merge(@, cells)]

\* row.save(family, value): sets one cell of the row
RowSave(tbl, k, family, value) ==
    [tbl EXCEPT ![k] = Merge(@, [f \in {family} |-> value])]

\* row.delete(): removes the cells of the row
RowDelete(tbl, k) == [tbl EXCEPT ![k] = EmptyRow]

Finish(c, status, ret, data) ==
    /\ pc' = [pc EXCEPT ![c] = "done"]
    /\ cur' = [cur EXCEPT ![c].status = status, ![c].ret = ret, ![c].data = data]

Goto(c, label) ==
    /\ pc' = [pc EXCEPT ![c] = label]
    /\ UNCHANGED cur

\* a client just constructed, for a table that exists or not, used by one
\* caller on one key.  The constructor calls this.validateTable() without
\* awaiting it and returns: the promise is pending
StartInit ==
    /\ rows = [k \in Keys |-> EmptyRow]
    /\ active = {"c1"}
    /\ pc = [c \in Callers |-> "idle"]
    /\ cur = [c \in Callers |-> NoCur]
    /\ deleted = {}
    /\ prev = [c \in Callers |-> NoPrev]
    /\ universe = [keys |-> {"k1"}, rows |-> ConcRows, bounded |-> FALSE]
    /\ left = 0
    /\ overwrote = {}
    /\ stale = {}
    /\ tableExists \in BOOLEAN
    /\ client = [ctor |-> "returned", validation |-> "pending"]

\* validateTable: the answer of this.table.exists() arrives; the throw rejects
\* a promise that nothing awaits or handles
ValidateTable ==
    /\ client.validation = "pending"
    /\ client' = [client EXCEPT !.validation =
                     IF tableExists THEN "ok" ELSE "unhandled"]
    /\ UNCHANGED <<rows, active, pc, cur, deleted, prev, universe, left,
                   overwrote, stale, tableExists>>
    /\ UNCHANGED <<synthVars, inferVars>>

\* a request of a method on a table the instance does not hold: the awaited
\* call rejects with the backend's error, which the method lets through
BackendFails(c) ==
    /\ c \in active
    /\ pc[c] \notin {"idle", "done"}
    /\ ~tableExists
    /\ Finish(c, "TableNotFound", "-", EmptyRow)
    /\ UNCHANGED <<rows, active, deleted, prev, overwrote, stale>>
    /\ UNCHANGED <<synthVars, inferVars, universe, left, tableExists, client>>

\* a caller invokes a method: the code up to the first await (validateRow for
\* insert, upsert and update, then the existence probe is sent)
Call(c, op, k, r) ==
    /\ c \in active
    /\ k \in universe.keys
    /\ r \in universe.rows
    /\ universe.bounded => left > 0
    /\ pc[c] \in {"idle", "done"}
    /\ LET call == [NoCur EXCEPT !.op = op, !.pre = rows,
                      !.key = IF op = "list" THEN "-" ELSE k,
                      !.row = IF op \in {"insert", "upsert", "update"} THEN r
                              ELSE EmptyRow]
           first == CASE op = "insert" -> "insert_exists"
                      [] op = "upsert" -> "upsert_exists"
                      [] op = "update" -> "update_exists"
                      [] op = "delete" -> "delete_exists"
                      [] op = "get" -> "get_exists"
                      [] op = "tryGet" -> "tryGet_exists"
                      [] OTHER -> "list_rows"
       IN  IF op \in {"insert", "upsert", "update"} /\ ~ValidRow(r)
           THEN /\ pc' = [pc EXCEPT ![c] = "done"]
                /\ cur' = [cur EXCEPT ![c] =
                             [call EXCEPT !.status = "SchemaValidation"]]
           ELSE /\ pc' = [pc EXCEPT ![c] = first]
                /\ cur' = [cur EXCEPT ![c] = call]
    /\ deleted' = IF op \in {"insert", "upsert"} THEN deleted \ {k} ELSE deleted
    /\ prev' = [prev EXCEPT ![c] =
                  IF /\ op = "get"
                     /\ pc[c] = "done"
                     /\ cur[c].op = "upsert"
                     /\ cur[c].status = "ok"
                     /\ cur[c].key = k
                  THEN [is |-> TRUE, row |-> cur[c].row, pre |-> cur[c].pre]
                  ELSE NoPrev]
    /\ overwrote' = overwrote \ {c}
    /\ stale' = stale \ {c}
    /\ left' = IF universe.bounded THEN left - 1 ELSE left
    /\ UNCHANGED <<rows, active>>
    /\ UNCHANGED <<synthVars, inferVars, universe, tableExists, client>>

\* (mutant) insert without the existence check
InsertExistsNoCheck(c) ==
    /\ pc[c] = "insert_exists"
    /\ tableExists
    /\ Goto(c, "insert_write")
    /\ UNCHANGED <<rows, active, deleted, prev, overwrote, stale>>
    /\ UNCHANGED <<synthVars, inferVars, universe, left, tableExists, client>>

\* insert: const [exists] = await this.table.row(key).exists()
InsertExists(c) ==
    /\ pc[c] = "insert_exists"
    /\ tableExists
    /\ IF RowExists(rows, cur[c].key)
       THEN Finish(c, "AlreadyExists", "-", EmptyRow)
       ELSE Goto(c, "insert_write")
    /\ UNCHANGED <<rows, active, deleted, prev, overwrote, stale>>
    /\ UNCHANGED <<synthVars, inferVars, universe, left, tableExists, client>>

\* (mutant) insert whose write is conditional on the row still being absent
InsertWriteChecked(c) ==
    /\ pc[c] = "insert_write"
    /\ tableExists
    /\ IF RowExists(rows, cur[c].key)
       THEN /\ Finish(c, "AlreadyExists", "-", EmptyRow)
            /\ UNCHANGED rows
       ELSE /\ rows' = TableInsert(rows, InsertRow(cur[c].key, cur[c].row))
            /\ Finish(c, "ok", "void", EmptyRow)
    /\ UNCHANGED <<active, deleted, prev, overwrote, stale>>
    /\ UNCHANGED <<synthVars, inferVars, universe, left, tableExists, client>>

\* insert: await this.table.insert(insertRow)
InsertWrite(c) ==
    /\ pc[c] = "insert_write"
    /\ tableExists
    /\ rows' = TableInsert(rows, InsertRow(cur[c].key, cur[c].row))
    /\ Finish(c, "ok", "void", EmptyRow)
    /\ overwrote' = IF RowExists(rows, cur[c].key) THEN overwrote \cup {c}
                    ELSE overwrote
    /\ UNCHANGED <<active, deleted, prev, stale>>
    /\ UNCHANGED <<synthVars, inferVars, universe, left, tableExists, client>>

\* upsert: the existence probe, then this.update or this.insert, each of which
\* validates the row again and sends its own probe
UpsertExists(c) ==
    /\ pc[c] = "upsert_exists"
    /\ tableExists
    /\ IF RowExists(rows, cur[c].key)
       THEN Goto(c, "update_exists")
       ELSE Goto(c, "insert_exists")
    /\ UNCHANGED <<rows, active, deleted, prev, overwrote, stale>>
    /\ UNCHANGED <<synthVars, inferVars, universe, left, tableExists, client>>

\* (mutant) update without the existence check
UpdateExistsNoCheck(c) ==
    /\ pc[c] = "update_exists"
    /\ tableExists
    /\ IF DOMAIN cur[c].row = {}
       THEN Finish(c, "ok", "void", EmptyRow)
       ELSE /\ pc' = [pc EXCEPT ![c] = "update_save"]
            /\ cur' = [cur EXCEPT ![c].todo = DOMAIN cur[c].row]
    /\ UNCHANGED <<rows, active, deleted, prev, overwrote, stale>>
    /\ UNCHANGED <<synthVars, inferVars, universe, left, tableExists, client>>

\* update: const [exists] = await tableRow.exists()
UpdateExists(c) ==
    /\ pc[c] = "update_exists"
    /\ tableExists
    /\ IF ~RowExists(rows, cur[c].key)
       THEN Finish(c, "NotFound", "-", EmptyRow)
       ELSE IF DOMAIN cur[c].row = {}
       THEN Finish(c, "ok", "void", EmptyRow)
       ELSE /\ pc' = [pc EXCEPT ![c] = "update_save"]
            /\ cur' = [cur EXCEPT ![c].todo = DOMAIN cur[c].row]
    /\ UNCHANGED <<rows, active, deleted, prev, overwrote, stale>>
    /\ UNCHANGED <<synthVars, inferVars, universe, left, tableExists, client>>

\* update: one turn of the loop, await tableRow.save(family, value); the
\* entries come in the order of the properties of the row the caller built
UpdateSave(c) ==
    /\ pc[c] = "update_save"
    /\ tableExists
    /\ \E column \in cur[c].todo :
          /\ rows' = RowSave(rows, cur[c].key, Family(column), cur[c].row[column])
          /\ IF cur[c].todo = {column}
             THEN /\ pc' = [pc EXCEPT ![c] = "done"]
                  /\ cur' = [cur EXCEPT ![c].todo = {}, ![c].status = "ok",
                                        ![c].ret = "void"]
             ELSE /\ cur' = [cur EXCEPT ![c].todo = @ \ {column}]
                  /\ UNCHANGED pc
    /\ UNCHANGED <<active, deleted, prev, overwrote, stale>>
    /\ UNCHANGED <<synthVars, inferVars, universe, left, tableExists, client>>

\* delete: const [exists] = await row.exists()
DeleteExists(c) ==
    /\ pc[c] = "delete_exists"
    /\ tableExists
    /\ IF ~RowExists(rows, cur[c].key)
       THEN Finish(c, "NotFound", "-", EmptyRow)
       ELSE Goto(c, "delete_row")
    /\ UNCHANGED <<rows, active, deleted, prev, overwrote, stale>>
    /\ UNCHANGED <<synthVars, inferVars, universe, left, tableExists, client>>

\* (mutant) delete that reports success without removing the row
DeleteRowSkipped(c) ==
    /\ pc[c] = "delete_row"
    /\ tableExists
    /\ Finish(c, "ok", "void", EmptyRow)
    /\ deleted' = deleted \cup {cur[c].key}
    /\ UNCHANGED <<rows, active, prev, overwrote, stale>>
    /\ UNCHANGED <<synthVars, inferVars, universe, left, tableExists, client>>

\* delete: await row.delete()
DeleteRow(c) ==
    /\ pc[c] = "delete_row"
    /\ tableExists
    /\ rows' = RowDelete(rows, cur[c].key)
    /\ Finish(c, "ok", "void", EmptyRow)
    /\ deleted' = deleted \cup {cur[c].key}
    /\ stale' = stale \cup {d \in Callers : /\ pc[d] = "update_save"
                                           /\ cur[d].key = cur[c].key}
    /\ UNCHANGED <<active, prev, overwrote>>
    /\ UNCHANGED <<synthVars, inferVars, universe, left, tableExists, client>>

\* get: const [exists] = await rowReference.exists()
GetExists(c) ==
    /\ pc[c] = "get_exists"
    /\ tableExists
    /\ IF ~RowExists(rows, cur[c].key)
       THEN Finish(c, "NotFound", "-", EmptyRow)
       ELSE Goto(c, "get_read")
    /\ UNCHANGED <<rows, active, deleted, prev, overwrote, stale>>
    /\ UNCHANGED <<synthVars, inferVars, universe, left, tableExists, client>>

\* get: const [row] = await rowReference.get(); return Json.parse(row.data).
\* Reading a row that has no cells fails in the backend.
GetRead(c) ==
    /\ pc[c] = "get_read"
    /\ tableExists
    /\ IF RowExists(rows, cur[c].key)
       THEN Finish(c, "ok", "row", rows[cur[c].key])
       ELSE Finish(c, "RowError", "-", EmptyRow)
    /\ UNCHANGED <<rows, active, deleted, prev, overwrote, stale>>
    /\ UNCHANGED <<synthVars, inferVars, universe, left, tableExists, client>>

\* tryGet: const [exists] = await rowReference.exists()
TryGetExists(c) ==
    /\ pc[c] = "tryGet_exists"
    /\ tableExists
    /\ IF ~RowExists(rows, cur[c].key)
       THEN Finish(c, "ok", Undefined, EmptyRow)
       ELSE Goto(c, "tryGet_read")
    /\ UNCHANGED <<rows, active, deleted, prev, overwrote, stale>>
    /\ UNCHANGED <<synthVars, inferVars, universe, left, tableExists, client>>

\* tryGet: const [row] = await rowReference.get()
TryGetRead(c) ==
    /\ pc[c] = "tryGet_read"
    /\ tableExists
    /\ IF RowExists(rows, cur[c].key)
       THEN Finish(c, "ok", "row", rows[cur[c].key])
       ELSE Finish(c, "RowError", "-", EmptyRow)
    /\ UNCHANGED <<rows, active, deleted, prev, overwrote, stale>>
    /\ UNCHANGED <<synthVars, inferVars, universe, left, tableExists, client>>

\* list: const [rows] = await this.table.getRows()
ListRows(c) ==
    /\ pc[c] = "list_rows"
    /\ tableExists
    /\ pc' = [pc EXCEPT ![c] = "done"]
    /\ cur' = [cur EXCEPT ![c].status = "ok", ![c].ret = "rows",
                 ![c].list = [k \in {x \in Keys : RowExists(rows, x)} |-> rows[k]]]
    /\ UNCHANGED <<rows, active, deleted, prev, overwrote, stale>>
    /\ UNCHANGED <<synthVars, inferVars, universe, left, tableExists, client>>

ClientNext ==
    \/ \E c \in Callers, op \in Methods, k \in Keys, r \in InputRows : Call(c, op, k, r)
    \/ \E c \in Callers : InsertExists(c)
    \/ \E c \in Callers : InsertWrite(c)
    \/ \E c \in Callers : UpsertExists(c)
    \/ \E c \in Callers : UpdateExists(c)
    \/ \E c \in Callers : UpdateSave(c)
    \/ \E c \in Callers : DeleteExists(c)
    \/ \E c \in Callers : DeleteRow(c)
    \/ \E c \in Callers : GetExists(c)
    \/ \E c \in Callers : GetRead(c)
    \/ \E c \in Callers : TryGetExists(c)
    \/ \E c \in Callers : TryGetRead(c)
    \/ \E c \in Callers : ListRows(c)

(***************************************************************************)
(* Specifications                                                          *)
(***************************************************************************)
Init == SynthInit /\ InferIdle /\ ClientIdle

Next == SynthNext

\* the synthesis of an app: constructors and bind calls
Spec == Init /\ [][Next]_vars

InitInfer == SynthInit /\ InferInit /\ ClientIdle

\* role inference applied to every operation set over the vocabulary
SpecInfer == InitInfer /\ [][Infer]_vars

InitClient == SynthInit /\ InferIdle /\ ClientInit

\* the table client used by a single caller
SpecClient == InitClient /\ [][ClientNext]_vars

InitConc == SynthInit /\ InferIdle /\ ConcInit

\* the table client used by two concurrent callers
SpecConc == InitConc /\ [][ClientNext]_vars

InitStart == SynthInit /\ InferIdle /\ StartInit

StartNext ==
    \/ ClientNext
    \/ ValidateTable
    \/ \E c \in Callers : BackendFails(c)

\* the table client from its construction on
SpecStart == InitStart /\ [][StartNext]_vars

(***************************************************************************)
(* Properties of the preflight part                                        *)
(***************************************************************************)
\* the roles of the grants a permission map holds for table t
GrantRolesIn(perms, f, t) ==
    IF UniqueId(t) \in DOMAIN perms[f].map
    THEN {a.roleDefinitionName : a \in perms[f].map[UniqueId(t)]}
    ELSE {}

\* the roles of the access policies emitted under function f for table t
PolicyRolesIn(tr, f, t) ==
    {o.role : o \in {x \in tr : x.scope = f /\ x.type = IAM_POLICY
                                /\ x.id = <<"FunctionIamPolicy-">> \o UniqueId(t)}}

\* the role in force for (t, f): the highest role granted
RoleInForce(f, t) ==
    IF READWRITE \in GrantRolesIn(permissions, f, t) THEN READWRITE
    ELSE IF READ \in GrantRolesIn(permissions, f, t) THEN READ
    ELSE "none"

\* the step is a call bind(f, t, ops) by a function f
IsBindStep(f, t) ==
    /\ nbinds' = nbinds + 1
    /\ last'.call = "bind"
    /\ last'.host = f
    /\ last'.table = t

\* C1: after any sequence of bind calls by one function on one table, the role
\* in force is the role inferred from the union of all operation sets declared
\* in those calls.
C1_RoleOfUnion ==
    \A f \in Functions, t \in Tables :
        (declared[f][t] # {} /\ declared[f][t] \subseteq Vocabulary)
            => RoleInForce(f, t) = PermissionName(declared[f][t])

\* C2: after bind(C, T, {get}) followed by bind(C, T, {update}) the permissions
\* recorded on C for T, and the access policies emitted for them, hold only the
\* READWRITE grant (in particular never READ and READWRITE together).
C2_ReadSuperseded ==
    [][\A f \in Functions, t \in Tables :
          (declared[f][t] = {"get"} /\ IsBindStep(f, t) /\ last'.ops = {"update"})
              => /\ GrantRolesIn(permissions', f, t) = {READWRITE}
                 /\ PolicyRolesIn(tree', f, t) = {READWRITE}]_vars

\* C3: binding is idempotent: a second bind of the same (function, table) with
\* operations that are the same as, or a subset of, those already declared is a
\* no-op (it completes, adds no entry to the permission map and emits no
\* access policy), and no (producer, principal, role) triple is granted twice.
C3_BindIdempotent ==
    /\ [][\A f \in Functions, t \in Tables :
            (declared[f][t] # {} /\ declared[f][t] \subseteq Vocabulary
             /\ IsBindStep(f, t)
             /\ last'.ops \subseteq declared[f][t])
                => /\ last'.result = "ok"
                   /\ permissions'[f].map = permissions[f].map
                   /\ tree' = tree]_vars
    /\ [](\A f \in Functions : \A k \in DOMAIN permissions[f].map :
            \A a, b \in permissions[f].map[k] :
                (a.roleDefinitionName = b.roleDefinitionName /\ a.scope = b.scope)
                    => a = b)

\* C4: for every operation set over the table vocabulary the role bind passes
\* to addPermission is READWRITE exactly when the set contains delete, update
\* or upsert, and READ otherwise.
C4_RoleInference ==
    inferRole # "-" =>
        /\ inferRole = READWRITE <=> inferOps \cap {"delete", "update", "upsert"} # {}
        /\ inferRole = READ <=> inferOps \cap {"delete", "update", "upsert"} = {}

C4_Witness ==
    /\ inferRole = READWRITE
    /\ inferOps = {"get", "upsert"}

\* C5: bind with a host that is not a tfgcp.Function fails, and the failed call
\* adds no permission, emits no object and records no binding.
C5_NonFunctionHostRejected ==
    [][\A h \in OtherHosts, t \in Tables :
          IsBindStep(h, t)
              => /\ last'.result = "HostError"
                 /\ permissions' = permissions
                 /\ tree' = tree
                 /\ bindings' = bindings]_vars

C5_Witness ==
    /\ last.call = "bind"
    /\ last.host \in OtherHosts
    /\ last.result = "HostError"
    /\ last.ops = {"update"}
    /\ funcField # {}

\* C6: bind with an operation outside the table vocabulary fails with
\* UnknownOperationError and records no grant.
C6_UnknownOperationRejected ==
    [][\A f \in Functions, t \in Tables :
          (IsBindStep(f, t) /\ ~(last'.ops \subseteq Vocabulary))
              => /\ last'.result = "UnknownOperation"
                 /\ permissions'[f].map = permissions[f].map
                 /\ tree' = tree]_vars

\* C7: constructing the table with initialRows fails and leaves no template
\* object of the table behind (neither the Bigtable instance nor the table).
C7_InitialRowsRejected ==
    /\ (last.call = "newTable" /\ last.initialRows)
          => /\ last.result = "UnsupportedFeature"
             /\ tableState[last.table] = "failed"
    /\ \A t \in Tables :
          tableState[t] = "failed" => ~(\E o \in tree : o.scope = t)

C7_Witness ==
    /\ last.call = "newTable"
    /\ last.initialRows
    /\ last.result = "UnsupportedFeature"
    /\ \E t \in Tables : tableState[t] = "ok"

(***************************************************************************)
(* Properties of the table client used by a single caller                  *)
(***************************************************************************)
\* caller c has completed a call of method op
Done(c, op) == c \in active /\ pc[c] = "done" /\ cur[c].op = op

\* C8: insert(k, r) with a schema-valid r on a key that holds a row fails with
\* the already-exists error and leaves the stored rows as they were.
C8_InsertExistingFails ==
    \A c \in Callers :
        (Done(c, "insert") /\ ValidRow(cur[c].row)
         /\ RowExists(cur[c].pre, cur[c].key))
            => /\ cur[c].status = "AlreadyExists"
               /\ rows = cur[c].pre

C8_Witness ==
    \E c \in Callers :
        /\ Done(c, "insert")
        /\ cur[c].status = "AlreadyExists"
        /\ cur[c].row = [f \in {NAME} |-> "b"]
        /\ rows[cur[c].key] = [f \in {NAME} |-> "a"]

\* C9: after a successful delete(k), and until an insert or upsert of k is
\* started, get(k) fails with the not-found error and tryGet(k) returns
\* undefined; delete(k) of an absent key fails with the not-found error and
\* leaves the table unchanged.
C9_DeleteThenGet ==
    /\ \A k \in deleted : ~RowExists(rows, k)
    /\ \A c \in Callers :
        /\ (Done(c, "get") /\ cur[c].key \in deleted)
              => cur[c].status = "NotFound"
        /\ (Done(c, "tryGet") /\ cur[c].key \in deleted)
              => (cur[c].status = "ok" /\ cur[c].ret = Undefined)
        /\ (Done(c, "delete") /\ ~RowExists(cur[c].pre, cur[c].key))
              => (cur[c].status = "NotFound" /\ rows = cur[c].pre)

C9_Witness ==
    \E c \in Callers :
        /\ Done(c, "get")
        /\ cur[c].key \in deleted
        /\ cur[c].status = "NotFound"
        /\ \E k \in Keys : RowExists(rows, k)

\* C10: upsert(k, r) with a schema-valid r directly followed by get(k) returns
\* the fields k had before the upsert overridden by the fields of r, and the
\* rows of the other keys are unchanged.
C10_UpsertGetRoundTrip ==
    \A c \in Callers :
        (Done(c, "get") /\ prev[c].is)
            => /\ cur[c].status = "ok"
               /\ cur[c].data = Merge(prev[c].pre[cur[c].key], prev[c].row)
               /\ \A k \in Keys \ {cur[c].key} : rows[k] = prev[c].pre[k]

\* C11: update(k, r) with a schema-valid r on an absent key fails with the
\* not-found error and creates no row; on an existing key it succeeds and
\* leaves the prior row with each field of r replaced by r's value and every
\* other field (and every other key) unchanged.
C11_UpdateMerges ==
    \A c \in Callers :
        (Done(c, "update") /\ ValidRow(cur[c].row))
            => IF RowExists(cur[c].pre, cur[c].key)
               THEN /\ cur[c].status = "ok"
                    /\ rows = [cur[c].pre EXCEPT ![cur[c].key] =
                                 Merge(@, cur[c].row)]
               ELSE /\ cur[c].status = "NotFound"
                    /\ rows = cur[c].pre

\* C12: with two concurrent callers, an upsert of a schema-valid row never
\* ends with an existence error (already-exists or not-found).
C12_UpsertNoExistenceError ==
    \A c \in Callers :
        (Done(c, "upsert") /\ ValidRow(cur[c].row))
            => cur[c].status \notin {"AlreadyExists", "NotFound"}

\* C13: with two concurrent callers, tryGet never ends with an error: it
\* returns a row or the absent marker.
C13_TryGetNeverFails ==
    \A c \in Callers :
        Done(c, "tryGet")
            => /\ cur[c].status = "ok"
               /\ cur[c].ret \in {"row", Undefined}

\* C14: the write of an insert that passed its existence check is
\* unconditional: it reports success and puts its fields in the row whatever
\* the row holds by then, so two concurrent inserts of one absent key can both
\* succeed and one overwrite the other.
C14_InsertWriteUnconditional ==
    [][\A c \in Callers :
          (pc[c] = "insert_write" /\ pc'[c] = "done")
              => /\ cur'[c].status = "ok"
                 /\ rows'[cur[c].key] = Merge(rows[cur[c].key], cur[c].row)]_vars

\* both inserts of an absent key succeeded and the table holds one of the two
\* rows only
C14_Witness ==
    /\ Done("c1", "insert") /\ Done("c2", "insert")
    /\ cur["c1"].status = "ok" /\ cur["c2"].status = "ok"
    /\ cur["c1"].key = cur["c2"].key
    /\ cur["c1"].row # cur["c2"].row
    /\ ~RowExists(cur["c1"].pre, cur["c1"].key)
    /\ ~RowExists(cur["c2"].pre, cur["c2"].key)
    /\ overwrote # {}
    /\ \E c \in Callers :
          /\ rows[cur[c].key] = cur[c].row
          /\ \E d \in Callers \ {c} : rows[cur[d].key] # cur[d].row

\* C15: insert, update and upsert with a row that has an undeclared field
\* fail with the schema-validation error and leave the table unchanged; and
\* every stored row holds declared fields only.
C15_OnlyDeclaredFields ==
    /\ \A c \in Callers :
          (/\ c \in active
           /\ pc[c] = "done"
           /\ cur[c].op \in {"insert", "update", "upsert"}
           /\ ~ValidRow(cur[c].row))
              => /\ cur[c].status = "SchemaValidation"
                 /\ rows = cur[c].pre
    /\ \A k \in Keys : DOMAIN rows[k] \subseteq Columns

\* the resource types of the template: the types of the objects of the tree
\* that are Terraform resources
ResourceTypes(tr) == {o.type : o \in tr} \ {"construct", "asset"}

\* C16: an app that holds one Function, no table and no binding has template
\* resources of the one type google_cloudfunctions_function.
C16_OnlyFunctionResource ==
    (funcField = {"F1"} /\ \A t \in Tables : tableState[t] = "none")
        => ResourceTypes(tree) = {"google_cloudfunctions_function"}

\* the grants held in the permission map of function f
Grants(f) ==
    UNION { {[key |-> k, a |-> a] : a \in permissions[f].map[k]} :
            k \in DOMAIN permissions[f].map }

\* the access policies emitted under function f for bound resources
BindPolicies(f) ==
    {o \in tree : o.scope = f /\ o.type = IAM_POLICY /\ o.id # <<"FunctionIamPolicy">>}

\* C17: after any sequence of bind calls, every grant in a function's
\* permission map has exactly one access policy (its id built from the grant's
\* key, with the grant's role), every such policy belongs to a grant, and no two
\* objects of the tree have the same scope and id.
C17_OnePolicyPerGrant ==
    /\ \A f \in funcField :
          /\ \A g \in Grants(f) :
                Cardinality({o \in BindPolicies(f) :
                               /\ o.id = <<"FunctionIamPolicy-">> \o g.key
                               /\ o.role = g.a.roleDefinitionName}) = 1
          /\ Cardinality(BindPolicies(f)) = Cardinality(Grants(f))
    /\ \A o1, o2 \in tree : (o1.scope = o2.scope /\ o1.id = o2.id) => o1 = o2

\* a function bound to one table at READ and then again at READWRITE
C17_Witness ==
    /\ last.call = "bind"
    /\ last.host = "F1"
    /\ last.role = READWRITE
    /\ GrantRolesIn(permissions, "F1", last.table) = {READ}
    /\ PolicyRolesIn(tree, "F1", last.table) = {READ}

\* C18: the role inferred for an operation set is READ exactly when every
\* operation is one of get, tryGet and list, and READWRITE as soon as the set
\* holds insert, update, upsert or delete.
C18_WritesGetReadWrite ==
    inferRole # "-" =>
        /\ inferRole = READ <=> inferOps \subseteq {"get", "tryGet", "list"}
        /\ inferRole = READWRITE
              <=> inferOps \cap {"insert", "update", "upsert", "delete"} # {}

\* C19: every grant in a permission map and every access policy of the tree
\* names a defined principal.
C19_PrincipalDefined ==
    /\ \A f \in Functions : \A g \in Grants(f) : g.a.scope # Undefined
    /\ \A o \in tree : o.type = IAM_POLICY => o.member \notin {Undefined, "-"}

\* the step is a save of the update running for caller c
IsSaveStep(c) == pc[c] = "update_save" /\ cur'[c].todo # cur[c].todo

\* C20: update never creates a row: no save of an update makes an absent key
\* present, in any interleaving of two callers.
C20_UpdateNeverCreates ==
    [][\A c \in Callers :
          (IsSaveStep(c) /\ cur[c].op = "update")
              => (RowExists(rows', cur[c].key) => RowExists(rows, cur[c].key))]_vars

\* C20 (amended): update creates a row only when a delete of the key took
\* effect between its existence check and its save.  The check writes nothing,
\* and on an absent key it ends the call with the not-found error; a save finds
\* its row absent only if the row was deleted after the check.
C20_UpdateCreatesOnlyAfterDelete ==
    [][\A c \in Callers :
          /\ (pc[c] = "update_exists" /\ pc'[c] # "update_exists")
                => /\ rows' = rows
                   /\ ~RowExists(rows, cur[c].key)
                        => (pc'[c] = "done" /\ cur'[c].status = "NotFound")
          /\ (IsSaveStep(c) /\ ~RowExists(rows, cur[c].key))
                => c \in stale]_vars

\* an update that passed its check completed after another caller's delete of
\* the key: the key holds just the cells the update saved
C20_Witness ==
    \E c \in Callers, d \in Callers :
        /\ c # d
        /\ Done(c, "update") /\ cur[c].status = "ok"
        /\ Done(d, "delete") /\ cur[d].status = "ok"
        /\ cur[d].key = cur[c].key
        /\ c \in stale
        /\ cur[c].key \in deleted
        /\ rows[cur[c].key] = cur[c].row

\* the step is a get, tryGet or list of caller c that returns a row for key k
IsReadStep(c, k) ==
    /\ pc'[c] = "done"
    /\ cur'[c].status = "ok"
    /\ \/ pc[c] \in {"get_read", "tryGet_read"} /\ cur[c].key = k
       \/ pc[c] = "list_rows" /\ k \in DOMAIN cur'[c].list

\* the row for key k that the read step of caller c returns
Returned(c, k) == IF pc[c] = "list_rows" THEN cur'[c].list[k] ELSE cur'[c].data

\* row shows the value of a field the running update u has saved and not yet
\* the value of a field it still has to save
Partial(row, u) ==
    /\ \E a \in DOMAIN u.row \ u.todo :
          Family(a) \in DOMAIN row /\ row[Family(a)] = u.row[a]
    /\ \E b \in u.todo :
          Family(b) \notin DOMAIN row \/ row[Family(b)] # u.row[b]

\* C21: an update of two or more fields is seen as one step: no get, tryGet
\* or list of another caller returns a row for the key with some fields of the
\* update applied and others not.
C21_UpdateSeenAsOneStep ==
    [][\A c \in Callers, d \in Callers, k \in Keys :
          (/\ c # d
           /\ IsReadStep(c, k)
           /\ pc[d] = "update_save"
           /\ cur[d].key = k)
              => ~Partial(Returned(c, k), cur[d])]_vars

\* the step sends a backend request for caller c: a method starts or goes on
\* to its next awaited call
IssuesRequest(c) ==
    /\ pc'[c] # pc[c] \/ cur'[c] # cur[c]
    /\ pc'[c] \notin {"idle", "done"}

\* C22: the client of a table that does not exist has its error reported by
\* the constructor, and no method sends a backend request before the
\* validation of the table has completed successfully.
C22_ValidatedBeforeUse ==
    /\ [](~tableExists => client.ctor = "threw")
    /\ [][\A c \in Callers : IssuesRequest(c) => client.validation = "ok"]_vars


============================================================================
